---- MODULE Spec2Model ----
(***************************************************************************)
(* Model of the user-registration ingestion pipeline:                      *)
(*   services/userService.js  validateUserData, submitUserData,            *)
(*                            saveUserToDatabase, getUserByEmail,          *)
(*                            getAllUsers                                  *)
(*   config/kafka.js          sendMessage, startConsumer.eachMessage       *)
(*   config/database.js       users table (UNIQUE email, SERIAL id),       *)
(*                            connectDatabase, query                       *)
(*   terraform/msk.tf         num.partitions                               *)
(*   routes/userRoutes.js     the responses of POST / and GET /:email      *)
(*   routes/healthRoutes.js   GET /api/health, /ready and /live            *)
(*   index.js                 startServer, SIGTERM / SIGINT handlers       *)
(* Time is counted in seconds.  An I/O step either succeeds or throws;     *)
(* the choice is an input of the step.                                     *)
(* Specifications:                                                         *)
(*   Spec        submissions and the consumers of the partitions           *)
(*   SpecPair    the same with several submissions                         *)
(*   SpecCrash   with consumer crashes and redelivery                      *)
(*   SpecReplay  one registration, crashes, and the clock                  *)
(*   SpecRead    one registration and getUserByEmail                       *)
(*   SpecHeal    one registration, crashes, the clock and one read         *)
(*   SpecProbe   the start of the process and the health endpoints         *)
(*   SpecValidate  the validator on payloads probing the schema            *)
(*   SpecList    getAllUsers on tables of up to three rows                   *)
(*   SpecPoison  one registration and the messages of another producer,      *)
(*               the consumer taking its steps (weak fairness)               *)
(*   SpecFrame   every operation of the service next to the consumer         *)
(*   SpecOrder   several submissions for one email, the clock standing still *)
(*   SpecShutdown  the start of the process, one registration, and a signal  *)
(*   SpecUpdate  a registration and its correction, the clock running        *)
(***************************************************************************)
EXTENDS Integers, Sequences, FiniteSets, TLC

\* ------------------------------------------------------------------ bounds
MaxRequests == 2        \* submissions (HTTP POSTs) in one behaviour of SpecPair
MaxSubmissions == 1     \* submissions in one behaviour of Spec
CrashSubmissions == 1   \* submissions in one behaviour of SpecCrash
MaxTicks == 1           \* clock advances in one behaviour
MaxCrashes == 1         \* consumer process crashes in one behaviour
MaxReads == 1           \* getUserByEmail calls in one behaviour of SpecRead
MaxForeign == 1         \* messages of other producers in one behaviour

\* ------------------------------------------------------- program constants
PoolMax == 20           \* database.js: max: 20
NumPartitions == 3      \* msk.tf: num.partitions
PendingTTL == 3600      \* submitUserData: setEx(userKey, 3600, ...)
CompletedTTL == 86400   \* saveUserToDatabase: setEx(userKey, 86400, ...)
ReadTTL == 3600         \* getUserByEmail: setEx(..., 3600, ...)
NameMin == 2
NameMax == 100
OccupationMin == 2
OccupationMax == 255

Reqs == 1..MaxRequests
Readers == 1..MaxReads
Partitions == 0..(NumPartitions - 1)

\* ------------------------------------------------------------------ inputs
\* An email is a sequence of characters, so that its syntax can be checked.
AnnEmail == <<"a", "n", "n", "@", "x", ".", "c", "o", "m">>
BobEmail == <<"b", "o", "b", "@", "x", ".", "c", "o", "m">>

Ann == [firstName |-> "Ann", lastName |-> "Lee", email |-> AnnEmail,
        gender |-> "female", sex |-> "female", occupation |-> "Engineer"]
\* a later correction of the same registration
AnnCorrected == [Ann EXCEPT !.occupation = "Doctor"]
Bob == [firstName |-> "Bob", lastName |-> "Ray", email |-> BobEmail,
        gender |-> "male", sex |-> "male", occupation |-> "Baker"]
\* firstName of length 1
ShortFirstName == [Ann EXCEPT !.firstName = "A"]

Payloads == {Ann, AnnCorrected, Bob, ShortFirstName}
Emails == {AnnEmail, BobEmail}

\* payloads that probe the schema: each rule at and beyond its limits, each
\* key missing, and a key the schema does not know
RECURSIVE Repeat(_, _)
Repeat(c, n) ==
  IF n = 0 THEN ""
  ELSE IF n % 2 = 0 THEN LET half == Repeat(c, n \div 2) IN half \o half
  ELSE c \o Repeat(c, n - 1)

Without(u, k) == [j \in DOMAIN u \ {k} |-> u[j]]

ValidatorInputs ==
  {Ann, Bob}
  \cup {Without(Ann, k) : k \in DOMAIN Ann}
  \cup {[Ann EXCEPT !.firstName = v] :
          v \in {"", "A", "Al", Repeat("a", NameMax), Repeat("a", NameMax + 1)}}
  \cup {[Ann EXCEPT !.lastName = v] :
          v \in {"L", "Li", Repeat("b", NameMax), Repeat("b", NameMax + 1)}}
  \cup {[Ann EXCEPT !.email = v] :
          v \in {<<"a", "n", "n">>, <<"a", "n", "n", "@", "x">>,
                 <<"@", "x", ".", "c", "o", "m">>,
                 <<"a", "@", "b", "@", "x", ".", "c", "o", "m">>,
                 <<"a", "n", "n", "@", "x", ".", "x", "x">>,
                 <<"a", ".", "b", "@", "x", ".", "o", "r", "g">>}}
  \cup {[Ann EXCEPT !.gender = v] :
          v \in {"male", "non-binary", "prefer-not-to-say", "intersex", "Female", ""}}
  \cup {[Ann EXCEPT !.sex = v] : v \in {"male", "intersex", "non-binary", ""}}
  \cup {[Ann EXCEPT !.occupation = v] :
          v \in {"X", "QA", Repeat("c", OccupationMax), Repeat("c", OccupationMax + 1)}}
  \cup {[k \in DOMAIN Ann \cup {"nickname"} |->
           IF k = "nickname" THEN "Annie" ELSE Ann[k]]}
  \cup {[Ann EXCEPT !.lastName = "L", !.sex = ""]}

\* --------------------------------------------------------------- Validator
SchemaKeys == <<"firstName", "lastName", "email", "gender", "sex", "occupation">>
Genders == {"male", "female", "non-binary", "prefer-not-to-say"}
Sexes == {"male", "female", "intersex"}
Tlds == {<<"c", "o", "m">>, <<"o", "r", "g">>, <<"n", "e", "t">>}
LocalChars == {"a", "b", "n", "o", "x", "."}
DomainChars == {"a", "b", "c", "e", "g", "m", "n", "o", "r", "t", "x"}

\* positions of character c in the sequence s
Positions(s, c) == {i \in 1..Len(s) : s[i] = c}

\* Joi.string().email(): exactly one "@", a non-empty local part, and a
\* domain of at least two non-empty segments ending in a known TLD.
EmailSyntaxOK(s) ==
  /\ Cardinality(Positions(s, "@")) = 1
  /\ LET at == CHOOSE i \in Positions(s, "@") : TRUE
         local == SubSeq(s, 1, at - 1)
         dom == SubSeq(s, at + 1, Len(s))
         dots == Positions(dom, ".")
     IN /\ Len(local) >= 1
        /\ \A i \in 1..Len(local) : local[i] \in LocalChars
        /\ local[1] # "." /\ local[Len(local)] # "."
        /\ dots # {}
        /\ \A i \in 1..Len(dom) : dom[i] \in DomainChars \cup {"."}
        /\ 1 \notin dots /\ Len(dom) \notin dots
        /\ \A i \in dots : (i + 1) \notin dots
        /\ LET last == CHOOSE i \in dots : \A j \in dots : j <= i
           IN SubSeq(dom, last + 1, Len(dom)) \in Tlds

\* the rule of one schema key, applied to a payload that has the key
FieldOK(u, k) ==
  CASE k = "firstName" -> Len(u[k]) >= NameMin /\ Len(u[k]) <= NameMax
    [] k = "lastName" -> Len(u[k]) >= NameMin /\ Len(u[k]) <= NameMax
    [] k = "email" -> EmailSyntaxOK(u[k])
    [] k = "gender" -> u[k] \in Genders
    [] k = "sex" -> u[k] \in Sexes
    [] k = "occupation" ->
         Len(u[k]) >= OccupationMin /\ Len(u[k]) <= OccupationMax

KeyOK(u, k) == k \in DOMAIN u /\ FieldOK(u, k)

\* userSchema.validate: keys are checked in schema order and the first
\* offending key is reported; a key the schema does not know is an error too.
FirstBadKey(u) ==
  IF \E i \in 1..Len(SchemaKeys) : ~KeyOK(u, SchemaKeys[i])
  THEN SchemaKeys[CHOOSE i \in 1..Len(SchemaKeys) :
                    /\ ~KeyOK(u, SchemaKeys[i])
                    /\ \A j \in 1..(i - 1) : KeyOK(u, SchemaKeys[j])]
  ELSE CHOOSE k \in DOMAIN u : \A i \in 1..Len(SchemaKeys) : SchemaKeys[i] # k

\* a schema that lets keys it does not know pass
SchemaValidAllowUnknown(u) ==
  \A i \in 1..Len(SchemaKeys) : KeyOK(u, SchemaKeys[i])

SchemaValid(u) ==
  /\ \A i \in 1..Len(SchemaKeys) : KeyOK(u, SchemaKeys[i])
  /\ \A k \in DOMAIN u : \E i \in 1..Len(SchemaKeys) : SchemaKeys[i] = k

\* a validator that lets every payload through
validateNothing(u) == [ok |-> TRUE, value |-> u]

\* validateUserData: the value, or a thrown error naming the key
validateUserData(u) ==
  IF SchemaValid(u)
  THEN [ok |-> TRUE, value |-> u]
  ELSE [ok |-> FALSE, error |-> <<"Validation error", FirstBadKey(u)>>]

\* -------------------------------------------------------------------- JSON
\* JSON.stringify turns a Date into its ISO string; strings stay strings.
\* A Date is the integer t, its ISO string is <<"iso", t>>.
ToISOString(t) == <<"iso", t>>

\* stringify of a validated payload (all values are strings)
StringifyUser(u) == [json |-> u]

\* stringify of a row returned by the database
StringifyRow(r) ==
  [json |-> [r EXCEPT !.created_at = ToISOString(r.created_at),
                      !.updated_at = ToISOString(r.updated_at)]]

\* a completion entry without the row
StringifyCompletedStampOnly(t, r) == [json |-> [savedAt |-> ToISOString(t)]]

\* stringify of { savedAt: new Date().toISOString(), ...row }
StringifyCompleted(t, r) ==
  [json |-> [savedAt |-> ToISOString(t)] @@ StringifyRow(r).json]

JSONParse(s) == s.json

\* JSON.parse throws a SyntaxError on a text that is not JSON: such a text
\* is a value without the json field
Parseable(s) == "json" \in DOMAIN s

\* ------------------------------------------------------------ cache store
PendingKey(email) == <<"user:pending:", email>>
CompletedKey(email) == <<"user:completed:", email>>

\* redisClient.setEx(key, ttl, value) at time t
SetEx(store, key, ttl, value, t) ==
  [k \in DOMAIN store \cup {key} |->
     IF k = key THEN [value |-> value, expireAt |-> t + ttl] ELSE store[k]]

\* a delete that removes nothing
DelNothing(store, key) == store

\* redisClient.del(key): no error when the key is absent
Del(store, key) == [k \in DOMAIN store \ {key} |-> store[k]]

\* a key exists until its time to live has elapsed
Exists(store, key, t) == key \in DOMAIN store /\ t < store[key].expireAt

\* -------------------------------------------------------- system of record
HasRow(tbl, email) == \E r \in tbl : r.email = email
RowOf(tbl, email) == CHOOSE r \in tbl : r.email = email

NewRow(id, u, t) ==
  [id |-> id, first_name |-> u.firstName, last_name |-> u.lastName,
   email |-> u.email, gender |-> u.gender, sex |-> u.sex,
   occupation |-> u.occupation, created_at |-> t, updated_at |-> t]

\* a replacement of the whole row, creation time included
UpdatedRowRecreated(r, u, t) == NewRow(r.id, u, t)

UpdatedRow(r, u, t) ==
  [r EXCEPT !.first_name = u.firstName, !.last_name = u.lastName,
            !.gender = u.gender, !.sex = u.sex,
            !.occupation = u.occupation, !.updated_at = t]

\* an upsert that gives the row of a known email the next value of the
\* sequence
UpsertRowRenumbered(tbl, id, u, t) ==
  IF HasRow(tbl, u.email)
  THEN [UpdatedRow(RowOf(tbl, u.email), u, t) EXCEPT !.id = id]
  ELSE NewRow(id, u, t)

\* INSERT ... ON CONFLICT (email) DO UPDATE SET ... RETURNING *
UpsertRow(tbl, id, u, t) ==
  IF HasRow(tbl, u.email) THEN UpdatedRow(RowOf(tbl, u.email), u, t)
  ELSE NewRow(id, u, t)

\* an INSERT without the ON CONFLICT clause and the UNIQUE constraint
UpsertTableAppend(tbl, id, u, t) == tbl \cup {NewRow(id, u, t)}

UpsertTable(tbl, id, u, t) ==
  IF HasRow(tbl, u.email)
  THEN (tbl \ {RowOf(tbl, u.email)}) \cup {UpsertRow(tbl, id, u, t)}
  ELSE tbl \cup {UpsertRow(tbl, id, u, t)}

\* the submitted fields of a row
RowFields(r) ==
  [firstName |-> r.first_name, lastName |-> r.last_name, email |-> r.email,
   gender |-> r.gender, sex |-> r.sex, occupation |-> r.occupation]

\* ------------------------------------------------------------------- state
VARIABLES
  users,        \* the users table: a set of rows
  nextId,       \* the SERIAL sequence of users.id
  redis,        \* the cache store: key -> [value, expireAt]
  held,         \* every row the users table has held so far
  log,          \* topic user-registration: partition -> sequence of messages
  position,     \* partition -> offsets the consumer has resolved
  committed,    \* partition -> offsets committed to the broker
  cons,         \* partition -> the consumer's place in eachMessage
  req,          \* request -> the place of its submitUserData call
  rd,           \* reader -> the place of its getUserByEmail call
  now,          \* the clock, in seconds
  crashes,      \* consumer crashes so far
  staged,       \* requests whose staging write completed
  stageFailed,  \* requests whose staging write threw
  publishFailed,\* requests whose publish threw
  okCount,      \* request -> how often saveUserToDatabase returned for its message
  upsertFailed, \* requests whose message made saveUserToDatabase throw
  crashedAt,    \* request -> the steps at which a crash interrupted its message
  startedAfter, \* request -> the requests accepted before it was submitted
  boot,         \* the place of startServer, "listening" once app.listen ran
  redisClient,  \* redis.js: let redisClient
  pool,         \* database.js: let pool
  producer,     \* kafka.js: let producer
  connectedOnce,\* whether producer.connect() has resolved
  connections,  \* the Kafka clients of the process that are connected
  checkedOut,   \* the clients of the pool that are checked out
  up,           \* dependency -> whether it answers at present
  health,       \* the place of the GET /api/health handler
  ready,        \* the place of the GET /api/health/ready handler
  live,         \* the last answer of GET /api/health/live
  listing       \* the last call of GET /api/users and its answer

vars == <<users, nextId, redis, held, log, position, committed, cons, req, rd, now,
          crashes, staged, stageFailed, publishFailed, okCount, upsertFailed,
          crashedAt, startedAfter, boot, redisClient, pool, producer,
          connectedOnce, connections, checkedOut, up, health, ready, live,
          listing>>

process == <<boot, redisClient, pool, producer, connectedOnce, connections,
             checkedOut, up>>
probes == <<health, ready, live>>
aside == <<listing>>
store == <<users, nextId, redis, held>>
relay == <<log, position, committed, cons>>
submitHistory == <<staged, stageFailed, publishFailed, startedAfter>>
consumerHistory == <<okCount, upsertFailed, crashedAt>>

Polling == [pc |-> "polling"]
Idle == [pc |-> "idle"]

Services == {"redis", "postgres", "kafka"}

\* the registration pipeline before any request
EmptyTable ==
  /\ users = {}
  /\ nextId = 1
  /\ held = {}

NoRequest ==
  /\ redis = <<>>
  /\ log = [p \in Partitions |-> <<>>]
  /\ position = [p \in Partitions |-> 0]
  /\ committed = [p \in Partitions |-> 0]
  /\ cons = [p \in Partitions |-> Polling]
  /\ req = [r \in Reqs |-> Idle]
  /\ rd = [i \in Readers |-> Idle]
  /\ now = 0
  /\ crashes = 0
  /\ staged = {}
  /\ stageFailed = {}
  /\ publishFailed = {}
  /\ okCount = [r \in Reqs |-> 0]
  /\ upsertFailed = {}
  /\ crashedAt = [r \in Reqs |-> {}]
  /\ startedAfter = [r \in Reqs |-> {}]
  /\ health = Idle
  /\ ready = Idle
  /\ live = Idle
  /\ listing = Idle

PipelineInit == EmptyTable /\ NoRequest

\* the process as node starts it: no module variable is set
Booting ==
  /\ boot = "connectRedis"
  /\ redisClient = "null"
  /\ pool = "null"
  /\ producer = "null"
  /\ connectedOnce = FALSE
  /\ connections = {}
  /\ checkedOut = 0

\* the process once startServer has run through: app.listen has been called
Serving ==
  /\ boot = "listening"
  /\ redisClient = "client"
  /\ pool = "pool"
  /\ producer = "producer"
  /\ connectedOnce = TRUE
  /\ connections = {"producer", "consumer"}
  /\ checkedOut = 0

\* the pipeline is specified in a serving process whose dependencies answer,
\* failing calls being choices of the single actions
Init == PipelineInit /\ Serving /\ up = [s \in Services |-> TRUE]

\* the start of the process, with each dependency up or down
InitBoot == PipelineInit /\ Booting /\ up \in [Services -> BOOLEAN]

Accepted == {r \in Reqs : req[r].pc = "done" /\ req[r].result = "accepted"}
InFlight == {r \in Reqs : req[r].pc \in {"staging", "publishing"}}
UpsertOk == {r \in Reqs : okCount[r] > 0}

\* the messages of request r in the log
MessagesOf(r) ==
  {<<p, i>> \in Partitions \X (1..MaxRequests) :
     i <= Len(log[p]) /\ log[p][i].req = r}

\* --------------------------------------------------------- submitUserData
\* a submission that stores the validated payload itself
SubmitValidateStoring(r, u) ==
  /\ req[r].pc = "idle"
  /\ \A q \in Reqs : q < r => req[q].pc # "idle"
  /\ LET v == validateUserData(u)
     IN /\ req' = [req EXCEPT ![r] =
                     IF v.ok
                     THEN [pc |-> "staging", input |-> u, data |-> v.value]
                     ELSE [pc |-> "done", input |-> u, result |-> "ValidationError",
                           error |-> v.error]]
        /\ IF v.ok
           THEN /\ users' = UpsertTable(users, nextId, v.value, now)
                /\ nextId' = nextId + 1
                /\ held' = held \cup {UpsertRow(users, nextId, v.value, now)}
           ELSE UNCHANGED <<users, nextId, held>>
  /\ startedAfter' = [startedAfter EXCEPT ![r] = Accepted]
  /\ UNCHANGED <<redis, relay, rd, now, crashes, staged, stageFailed,
                 publishFailed, consumerHistory>>
  /\ UNCHANGED <<process, probes, aside>>

\* validateUserData(userData); a validation error is rethrown at once.
\* Requests are numbered in the order in which they arrive.
SubmitValidate(r, u) ==
  /\ req[r].pc = "idle"
  /\ \A q \in Reqs : q < r => req[q].pc # "idle"
  /\ LET v == validateUserData(u)
     IN req' = [req EXCEPT ![r] =
                  IF v.ok
                  THEN [pc |-> "staging", input |-> u, data |-> v.value]
                  ELSE [pc |-> "done", input |-> u, result |-> "ValidationError",
                        error |-> v.error]]
  /\ startedAfter' = [startedAfter EXCEPT ![r] = Accepted]
  /\ UNCHANGED <<store, relay, rd, now, crashes, staged, stageFailed,
                 publishFailed, consumerHistory>>
  /\ UNCHANGED <<process, probes, aside>>

\* a staging write whose error is swallowed
SubmitStageSwallowed(r, ok) ==
  /\ req[r].pc = "staging"
  /\ req' = [req EXCEPT ![r].pc = "publishing"]
  /\ IF ok
     THEN /\ redis' = SetEx(redis, PendingKey(req[r].data.email), PendingTTL,
                            StringifyUser(req[r].data), now)
          /\ staged' = staged \cup {r}
          /\ UNCHANGED stageFailed
     ELSE /\ stageFailed' = stageFailed \cup {r}
          /\ UNCHANGED <<redis, staged>>
  /\ UNCHANGED <<users, nextId, held, relay, rd, now, crashes, publishFailed,
                 startedAfter, consumerHistory>>
  /\ UNCHANGED <<process, probes, aside>>

\* await redisClient.setEx(`user:pending:${email}`, 3600, JSON.stringify(..))
SubmitStage(r, ok) ==
  /\ req[r].pc = "staging"
  /\ IF ok
     THEN /\ redis' = SetEx(redis, PendingKey(req[r].data.email), PendingTTL,
                            StringifyUser(req[r].data), now)
          /\ req' = [req EXCEPT ![r].pc = "publishing"]
          /\ staged' = staged \cup {r}
          /\ UNCHANGED stageFailed
     ELSE /\ req' = [req EXCEPT ![r] =
                       [pc |-> "done", input |-> @.input, result |-> "StagingError"]]
          /\ stageFailed' = stageFailed \cup {r}
          /\ UNCHANGED <<redis, staged>>
  /\ UNCHANGED <<users, nextId, held, relay, rd, now, crashes, publishFailed,
                 startedAfter, consumerHistory>>
  /\ UNCHANGED <<process, probes, aside>>

\* The message sendMessage hands to producer.send.  req tells the messages
\* apart; the producer's timestamp is left out, eachMessage does not read it.
Message(r, data) == [value |-> StringifyUser(data), req |-> r]

\* Empty partitions are interchangeable: the lowest-numbered one stands for
\* all of them.
Eligible(p) == \A q \in Partitions : q < p => log[q] # <<>>

\* The topic is open to every producer of the cluster.  What another producer
\* may leave in it: a text cut off in the middle, which is not JSON, and a
\* JSON object without the email, which no retry can ever store.
Truncated == [raw |-> <<"{", "f", "i", "r", "s", "t">>]
ForeignValues == {Truncated, StringifyUser(Without(Ann, "email"))}

\* the messages in the log that no submission published (req is 0)
Foreign ==
  {<<p, i>> \in Partitions \X (1..(MaxRequests + MaxForeign)) :
     i <= Len(log[p]) /\ log[p][i].req = 0}

\* another producer appends a message to a partition of the topic
ForeignPublish(p, v) ==
  /\ Cardinality(Foreign) < MaxForeign
  /\ Eligible(p)
  /\ log' = [log EXCEPT ![p] = Append(@, [value |-> v, req |-> 0])]
  /\ UNCHANGED <<store, position, committed, cons, req, rd, now, crashes,
                 submitHistory, consumerHistory>>
  /\ UNCHANGED <<process, probes, aside>>

\* a publish that does not wait for the broker: a failed send goes unnoticed
SubmitPublishUnacknowledged(r, ok, p) ==
  /\ req[r].pc = "publishing"
  /\ Eligible(p)
  /\ req' = [req EXCEPT ![r] =
               [pc |-> "done", input |-> @.input, result |-> "accepted"]]
  /\ IF ok
     THEN /\ log' = [log EXCEPT ![p] = Append(@, Message(r, req[r].data))]
          /\ UNCHANGED publishFailed
     ELSE /\ publishFailed' = publishFailed \cup {r}
          /\ UNCHANGED log
  /\ UNCHANGED <<store, position, committed, cons, rd, now, crashes, staged,
                 stageFailed, startedAfter, consumerHistory>>
  /\ UNCHANGED <<process, probes, aside>>

\* await sendMessage('user-registration', validatedData): the message has no
\* key, so the partitioner may pick any partition; send resolves on the
\* broker's acknowledgement and throws otherwise.
SubmitPublish(r, ok, p) ==
  /\ req[r].pc = "publishing"
  /\ Eligible(p)
  /\ IF ok
     THEN /\ log' = [log EXCEPT ![p] = Append(@, Message(r, req[r].data))]
          /\ req' = [req EXCEPT ![r] =
                       [pc |-> "done", input |-> @.input, result |-> "accepted"]]
          /\ UNCHANGED publishFailed
     ELSE /\ req' = [req EXCEPT ![r] =
                       [pc |-> "done", input |-> @.input, result |-> "PublishError"]]
          /\ publishFailed' = publishFailed \cup {r}
          /\ UNCHANGED log
  /\ UNCHANGED <<store, position, committed, cons, rd, now, crashes, staged,
                 stageFailed, startedAfter, consumerHistory>>
  /\ UNCHANGED <<process, probes, aside>>

\* router.post('/'): the response to a finished call of submitUserData; the
\* catch block answers every error with 400 and the error's message
PostUserRoute(call) ==
  IF call.result = "accepted"
  THEN [status |-> 201,
        body |-> [success |-> TRUE,
                  message |-> "User registration submitted successfully",
                  data |-> [email |-> call.input.email]]]
  ELSE [status |-> 400,
        body |-> [success |-> FALSE,
                  error |-> IF call.result = "ValidationError"
                            THEN call.error
                            ELSE <<call.result>>]]

\* ------------------------------------------- startConsumer.eachMessage
\* const userData = JSON.parse(message.value.toString())
\* a message whose value is not JSON goes nowhere
ConsumerFetchParsedOnly(p) ==
  /\ cons[p].pc = "polling"
  /\ position[p] < Len(log[p])
  /\ Parseable(log[p][position[p] + 1].value)
  /\ LET m == log[p][position[p] + 1]
     IN cons' = [cons EXCEPT ![p] =
                   [pc |-> "query", msg |-> m, userData |-> JSONParse(m.value)]]
  /\ UNCHANGED <<store, log, position, committed, req, rd, now, crashes,
                 submitHistory, consumerHistory>>
  /\ UNCHANGED <<process, probes, aside>>

\* a SyntaxError of JSON.parse is thrown inside the try block: the catch block
\* logs it, eachMessage resolves and the offset of the message is resolved
ConsumerFetch(p) ==
  /\ cons[p].pc = "polling"
  /\ position[p] < Len(log[p])
  /\ LET m == log[p][position[p] + 1]
     IN IF Parseable(m.value)
        THEN /\ cons' = [cons EXCEPT ![p] =
                          [pc |-> "query", msg |-> m,
                           userData |-> JSONParse(m.value)]]
             /\ UNCHANGED position
        ELSE /\ position' = [position EXCEPT ![p] = @ + 1]
             /\ UNCHANGED cons
  /\ UNCHANGED <<store, log, committed, req, rd, now, crashes,
                 submitHistory, consumerHistory>>
  /\ UNCHANGED <<process, probes, aside>>

\* an error of saveUserToDatabase that ends the subscription loop
StopAfterError(p) ==
  /\ cons' = [cons EXCEPT ![p] = [pc |-> "stopped", msg |-> @.msg]]
  /\ upsertFailed' = upsertFailed \cup {cons[p].msg.req}
  /\ UNCHANGED <<position, okCount, crashedAt>>

\* the catch block of eachMessage logs the error and eachMessage resolves:
\* the offset of the message is resolved all the same
ResolveAfterError(p) ==
  /\ cons' = [cons EXCEPT ![p] = Polling]
  /\ position' = [position EXCEPT ![p] = @ + 1]
  /\ upsertFailed' = upsertFailed \cup {cons[p].msg.req}
  /\ UNCHANGED <<okCount, crashedAt>>

\* an upsert whose message counts as consumed as soon as the table answered
ConsumerQueryResolvedEarly(p, ok) ==
  /\ cons[p].pc = "query"
  /\ ok => \A i \in DOMAIN SchemaKeys : SchemaKeys[i] \in DOMAIN cons[p].userData
  /\ IF ok
     THEN /\ users' = UpsertTable(users, nextId, cons[p].userData, now)
          /\ nextId' = nextId + 1
          /\ held' = held \cup {UpsertRow(users, nextId, cons[p].userData, now)}
          /\ cons' = [cons EXCEPT ![p] =
                        [pc |-> "setEx", msg |-> @.msg, userData |-> @.userData,
                         row |-> UpsertRow(users, nextId, @.userData, now)]]
          /\ position' = [position EXCEPT ![p] = @ + 1]
          /\ UNCHANGED consumerHistory
     ELSE /\ ResolveAfterError(p)
          /\ UNCHANGED <<users, nextId, held>>
  /\ UNCHANGED <<redis, log, committed, req, rd, now, crashes, submitHistory>>
  /\ UNCHANGED <<process, probes, aside>>

\* saveUserToDatabase: const result = await query(insertQuery, values)
\* (a payload without one of the NOT NULL columns is refused by the table)
ConsumerQuery(p, ok) ==
  /\ cons[p].pc = "query"
  /\ ok => \A i \in DOMAIN SchemaKeys : SchemaKeys[i] \in DOMAIN cons[p].userData
  /\ IF ok
     THEN /\ users' = UpsertTable(users, nextId, cons[p].userData, now)
          /\ nextId' = nextId + 1
          /\ held' = held \cup {UpsertRow(users, nextId, cons[p].userData, now)}
          /\ cons' = [cons EXCEPT ![p] =
                        [pc |-> "setEx", msg |-> @.msg, userData |-> @.userData,
                         row |-> UpsertRow(users, nextId, @.userData, now)]]
          /\ UNCHANGED <<position, consumerHistory>>
     ELSE /\ ResolveAfterError(p)
          /\ UNCHANGED <<users, nextId, held>>
  /\ UNCHANGED <<redis, log, committed, req, rd, now, crashes, submitHistory>>
  /\ UNCHANGED <<process, probes, aside>>

\* saveUserToDatabase caching the row with the time of the cache write as its
\* update time
ConsumerSetExRestamped(p, ok) ==
  /\ cons[p].pc = "setEx"
  /\ IF ok
     THEN /\ redis' = SetEx(redis, CompletedKey(cons[p].userData.email), CompletedTTL,
                            StringifyCompleted(now, [cons[p].row EXCEPT
                                                       !.updated_at = now]), now)
          /\ cons' = [cons EXCEPT ![p].pc = "del"]
          /\ UNCHANGED <<position, consumerHistory>>
     ELSE /\ ResolveAfterError(p)
          /\ UNCHANGED redis
  /\ UNCHANGED <<users, nextId, held, log, committed, req, rd, now, crashes,
                 submitHistory>>
  /\ UNCHANGED <<process, probes, aside>>

\* saveUserToDatabase: await redisClient.setEx(`user:completed:${email}`, 86400, ..)
ConsumerSetEx(p, ok) ==
  /\ cons[p].pc = "setEx"
  /\ IF ok
     THEN /\ redis' = SetEx(redis, CompletedKey(cons[p].userData.email), CompletedTTL,
                            StringifyCompleted(now, cons[p].row), now)
          /\ cons' = [cons EXCEPT ![p].pc = "del"]
          /\ UNCHANGED <<position, consumerHistory>>
     ELSE /\ ResolveAfterError(p)
          /\ UNCHANGED redis
  /\ UNCHANGED <<users, nextId, held, log, committed, req, rd, now, crashes,
                 submitHistory>>
  /\ UNCHANGED <<process, probes, aside>>

\* a staging delete that does not wait for the write of the completion entry
ConsumerDelEarly(p, ok) ==
  /\ cons[p].pc \in {"setEx", "del"}
  /\ IF ok
     THEN /\ redis' = Del(redis, PendingKey(cons[p].userData.email))
          /\ cons' = [cons EXCEPT ![p] = Polling]
          /\ position' = [position EXCEPT ![p] = @ + 1]
          /\ okCount' = [okCount EXCEPT ![cons[p].msg.req] = @ + 1]
          /\ UNCHANGED <<upsertFailed, crashedAt>>
     ELSE /\ ResolveAfterError(p)
          /\ UNCHANGED redis
  /\ UNCHANGED <<users, nextId, held, log, committed, req, rd, now, crashes,
                 submitHistory>>
  /\ UNCHANGED <<process, probes, aside>>

\* saveUserToDatabase: await redisClient.del(`user:pending:${email}`), return;
\* eachMessage resolves and the offset of the message is resolved
ConsumerDel(p, ok) ==
  /\ cons[p].pc = "del"
  /\ IF ok
     THEN /\ redis' = Del(redis, PendingKey(cons[p].userData.email))
          /\ cons' = [cons EXCEPT ![p] = Polling]
          /\ position' = [position EXCEPT ![p] = @ + 1]
          /\ okCount' = [okCount EXCEPT ![cons[p].msg.req] = @ + 1]
          /\ UNCHANGED <<upsertFailed, crashedAt>>
     ELSE /\ ResolveAfterError(p)
          /\ UNCHANGED redis
  /\ UNCHANGED <<users, nextId, held, log, committed, req, rd, now, crashes,
                 submitHistory>>
  /\ UNCHANGED <<process, probes, aside>>

\* consumer.run with autoCommit: resolved offsets are committed to the broker
ConsumerCommit(p) ==
  /\ committed[p] < position[p]
  /\ committed' = [committed EXCEPT ![p] = position[p]]
  /\ UNCHANGED <<store, log, position, cons, req, rd, now, crashes,
                 submitHistory, consumerHistory>>
  /\ UNCHANGED <<process, probes, aside>>

\* the consumer process dies and a new one takes over the partition: what
\* was in memory is lost and consumption resumes at the committed offset
ProcessExit(p) ==
  /\ (cons[p].pc # "polling") \/ (committed[p] < position[p])
  /\ crashes' = crashes + 1
  /\ cons' = [cons EXCEPT ![p] = Polling]
  /\ position' = [position EXCEPT ![p] = committed[p]]
  /\ crashedAt' = IF cons[p].pc = "polling" \/ cons[p].msg.req \notin Reqs
                  THEN crashedAt
                  ELSE [crashedAt EXCEPT ![cons[p].msg.req] = @ \cup {cons[p].pc}]
  /\ UNCHANGED <<store, log, committed, req, rd, now, submitHistory, okCount,
                 upsertFailed>>
  /\ UNCHANGED <<process, probes, aside>>

ConsumerCrash(p) == crashes < MaxCrashes /\ ProcessExit(p)

\* ---------------------------------------------------------- getUserByEmail
\* getUserByEmail going to the users table without looking at the cache
ReadGetBypassingCache(i, email, ok) ==
  /\ rd[i].pc = "idle"
  /\ \A j \in Readers : j < i => rd[j].pc # "idle"
  /\ rd' = [rd EXCEPT ![i] =
              IF ~ok
              THEN [pc |-> "done", email |-> email, kind |-> "error", after |-> UpsertOk]
              ELSE [pc |-> "query", email |-> email, after |-> UpsertOk]]
  /\ UNCHANGED <<store, relay, req, now, crashes, submitHistory, consumerHistory>>
  /\ UNCHANGED <<process, probes, aside>>

\* const cachedUser = await redisClient.get(`user:completed:${email}`);
\* a hit returns JSON.parse(cachedUser)
ReadGet(i, email, ok) ==
  /\ rd[i].pc = "idle"
  /\ \A j \in Readers : j < i => rd[j].pc # "idle"
  /\ rd' = [rd EXCEPT ![i] =
              IF ~ok
              THEN [pc |-> "done", email |-> email, kind |-> "error", after |-> UpsertOk]
              ELSE IF Exists(redis, CompletedKey(email), now)
              THEN [pc |-> "done", email |-> email, kind |-> "hit", after |-> UpsertOk,
                    user |-> JSONParse(redis[CompletedKey(email)].value)]
              ELSE [pc |-> "query", email |-> email, after |-> UpsertOk]]
  /\ UNCHANGED <<store, relay, req, now, crashes, submitHistory, consumerHistory>>
  /\ UNCHANGED <<process, probes, aside>>

\* getUserByEmail caching the absence of a row
ReadQueryNegativeCaching(i, ok) ==
  /\ rd[i].pc = "query"
  /\ rd' = [rd EXCEPT ![i] =
              IF ~ok
              THEN [pc |-> "done", email |-> @.email, kind |-> "error", after |-> @.after]
              ELSE IF HasRow(users, @.email)
              THEN [pc |-> "setEx", email |-> @.email, after |-> @.after,
                    row |-> RowOf(users, @.email)]
              ELSE [pc |-> "done", email |-> @.email, kind |-> "null", after |-> @.after]]
  /\ redis' = IF ok /\ ~HasRow(users, rd[i].email)
              THEN SetEx(redis, CompletedKey(rd[i].email), ReadTTL, [json |-> "null"], now)
              ELSE redis
  /\ UNCHANGED <<users, nextId, held, relay, req, now, crashes, submitHistory,
                 consumerHistory>>
  /\ UNCHANGED <<process, probes, aside>>

\* const result = await query(selectQuery, [email]); no row: return null
ReadQuery(i, ok) ==
  /\ rd[i].pc = "query"
  /\ rd' = [rd EXCEPT ![i] =
              IF ~ok
              THEN [pc |-> "done", email |-> @.email, kind |-> "error", after |-> @.after]
              ELSE IF HasRow(users, @.email)
              THEN [pc |-> "setEx", email |-> @.email, after |-> @.after,
                    row |-> RowOf(users, @.email)]
              ELSE [pc |-> "done", email |-> @.email, kind |-> "null", after |-> @.after]]
  /\ UNCHANGED <<store, relay, req, now, crashes, submitHistory, consumerHistory>>
  /\ UNCHANGED <<process, probes, aside>>

\* getUserByEmail returning the row it read without caching it
ReadSetExUncached(i, ok) ==
  /\ rd[i].pc = "setEx"
  /\ rd' = [rd EXCEPT ![i] =
              IF ok
              THEN [pc |-> "done", email |-> @.email, kind |-> "miss",
                    after |-> @.after, user |-> @.row]
              ELSE [pc |-> "done", email |-> @.email, kind |-> "error",
                    after |-> @.after]]
  /\ UNCHANGED <<store, relay, req, now, crashes, submitHistory, consumerHistory>>
  /\ UNCHANGED <<process, probes, aside>>

\* await redisClient.setEx(`user:completed:${email}`, 3600, JSON.stringify(row));
\* return result.rows[0]
ReadSetEx(i, ok) ==
  /\ rd[i].pc = "setEx"
  /\ IF ok
     THEN /\ redis' = SetEx(redis, CompletedKey(rd[i].email), ReadTTL,
                            StringifyRow(rd[i].row), now)
          /\ rd' = [rd EXCEPT ![i] =
                      [pc |-> "done", email |-> @.email, kind |-> "miss",
                       after |-> @.after, user |-> @.row]]
     ELSE /\ rd' = [rd EXCEPT ![i] =
                      [pc |-> "done", email |-> @.email, kind |-> "error",
                       after |-> @.after]]
          /\ UNCHANGED redis
  /\ UNCHANGED <<users, nextId, held, relay, req, now, crashes, submitHistory,
                 consumerHistory>>
  /\ UNCHANGED <<process, probes, aside>>

\* router.get('/:email'): the response to a finished call of getUserByEmail
GetUserRoute(call) ==
  IF call.kind = "error"
  THEN [status |-> 500, body |-> [success |-> FALSE, error |-> "Failed to fetch user"]]
  ELSE IF call.kind = "null"
  THEN [status |-> 404, body |-> [success |-> FALSE, error |-> "User not found"]]
  ELSE [status |-> 200, body |-> [success |-> TRUE, data |-> call.user]]

\* ------------------------------------------------------------ getAllUsers
Min(a, b) == IF a < b THEN a ELSE b
Max(a, b) == IF a < b THEN b ELSE a

DigitChars == {"0", "1", "2", "3", "4", "5", "6", "7", "8", "9"}
DigitValue(c) == CHOOSE d \in 0..9 : ToString(d) = c

\* the value of the digits of s from position i on, up to the first
\* character that is no digit
RECURSIVE LeadingDigits(_, _, _)
LeadingDigits(s, i, acc) ==
  IF i > Len(s) \/ s[i] \notin DigitChars THEN acc
  ELSE LeadingDigits(s, i + 1, 10 * acc + DigitValue(s[i]))

\* parseInt of a query parameter, given as its characters; a parameter that
\* is not given (undefined) parses like the empty one, to NaN
ParseInt(s) ==
  LET signed == Len(s) >= 1 /\ s[1] \in {"-", "+"}
      first  == IF signed THEN 2 ELSE 1
  IN IF first > Len(s) \/ s[first] \notin DigitChars
     THEN [nan |-> TRUE]
     ELSE [nan |-> FALSE,
           n |-> IF signed /\ s[1] = "-" THEN 0 - LeadingDigits(s, first, 0)
                 ELSE LeadingDigits(s, first, 0)]

\* x || d on a parsed number: NaN and 0 are falsy
OrDefault(x, d) == IF x.nan \/ x.n = 0 THEN d ELSE x.n

\* a third registration, for tables of three rows
CarolEmail == <<"c", "a", "r", "o", "l", "@", "x", ".", "o", "r", "g">>
Carol == [firstName |-> "Carol", lastName |-> "Poe", email |-> CarolEmail,
          gender |-> "non-binary", sex |-> "intersex", occupation |-> "Pilot"]

\* tables the consumer's upserts lead to: up to three registrations, at one
\* instant or at different ones, and a registration upserted again
AnnOnly == UpsertTable({}, 1, Ann, 0)
ListTables ==
  {{}, AnnOnly,
   UpsertTable(AnnOnly, 2, Bob, 0),
   UpsertTable(AnnOnly, 2, Bob, PendingTTL),
   UpsertTable(UpsertTable(AnnOnly, 2, Bob, 0), 3, Carol, PendingTTL),
   UpsertTable(UpsertTable(AnnOnly, 2, Bob, PendingTTL), 3, Carol, 2 * PendingTTL),
   UpsertTable(UpsertTable(UpsertTable(AnnOnly, 2, Bob, PendingTTL), 3, Carol,
                           2 * PendingTTL), 4, AnnCorrected, 2 * PendingTTL)}

\* the query parameters the listing is called with
LimitParams == {<<>>, <<"0">>, <<"1">>, <<"2">>, <<"-", "1">>, <<"a">>}
OffsetParams == {<<>>, <<"0">>, <<"1">>, <<"2">>}

\* ORDER BY created_at DESC: the orders PostgreSQL may return the rows in;
\* rows created at the same instant come in any order
Orderings(tbl) ==
  {o \in [1..Cardinality(tbl) -> tbl] :
     /\ \A i, j \in DOMAIN o : i < j => o[i] # o[j] /\ o[i].created_at >= o[j].created_at}

\* LIMIT $1 OFFSET $2 on the ordered rows
Page(o, limit, offset) == SubSeq(o, offset + 1, Min(offset + limit, Len(o)))

\* router.get('/'): limit = parseInt(req.query.limit) || 100 and
\* offset = parseInt(req.query.offset) || 0, then getAllUsers(limit, offset);
\* PostgreSQL rejects a negative LIMIT or OFFSET, and any error is answered
\* with 500
ListUsers(lp, op, ok) ==
  /\ listing.pc \in {"idle", "done"}
  /\ LET limit  == OrDefault(ParseInt(lp), 100)
         offset == OrDefault(ParseInt(op), 0)
     IN IF ok /\ limit >= 0 /\ offset >= 0
        THEN \E o \in Orderings(users) :
               listing' = [pc |-> "done", limit |-> lp, offset |-> op, table |-> users,
                           status |-> 200,
                           body |-> [success |-> TRUE,
                                     count |-> Len(Page(o, limit, offset)),
                                     data |-> Page(o, limit, offset)]]
        ELSE listing' = [pc |-> "done", limit |-> lp, offset |-> op, table |-> users,
                         status |-> 500,
                         body |-> [success |-> FALSE, error |-> "Failed to fetch users"]]
  /\ UNCHANGED <<process, probes, store, relay, req, rd, now, crashes, submitHistory,
                 consumerHistory>>

\* ------------------------------------------------------------------- clock
\* the clock advances in steps of one staging time to live
Tick ==
  /\ now < MaxTicks * PendingTTL
  /\ now' = now + PendingTTL
  /\ UNCHANGED <<store, relay, req, rd, crashes, submitHistory, consumerHistory>>
  /\ UNCHANGED <<process, probes, aside>>

\* ------------------------------------------------------------ startServer
pipeline == <<store, relay, req, rd, now, crashes, submitHistory, consumerHistory,
              aside>>

\* a dependency goes down or comes back
DependencyChange(s) ==
  /\ boot # "exited"
  /\ up' = [up EXCEPT ![s] = ~@]
  /\ UNCHANGED <<boot, redisClient, pool, producer, connectedOnce, connections,
                 checkedOut, probes, pipeline>>

\* await connectRedis(): redisClient = redis.createClient(..), then
\* await redisClient.connect(); a failure ends in process.exit(1)
ConnectRedis ==
  /\ boot = "connectRedis"
  /\ redisClient' = "client"
  /\ boot' = IF up["redis"] THEN "connectDatabase" ELSE "exited"
  /\ UNCHANGED <<pool, producer, connectedOnce, connections, checkedOut, up, probes,
                 pipeline>>

\* a connectDatabase whose error is logged and not rethrown
ConnectDatabaseUnchecked ==
  /\ boot = "connectDatabase"
  /\ pool' = "pool"
  /\ boot' = "initKafka"
  /\ UNCHANGED <<redisClient, producer, connectedOnce, connections, checkedOut, up,
                 probes, pipeline>>

\* connectDatabase up to its first await: pool = new Pool({.. max: 20 ..}),
\* then const client = await pool.connect(); a failure ends in
\* process.exit(1)
ConnectDatabase ==
  /\ boot = "connectDatabase"
  /\ pool' = "pool"
  /\ IF up["postgres"]
     THEN boot' = "createUsersTable" /\ checkedOut' = checkedOut + 1
     ELSE boot' = "exited" /\ UNCHANGED checkedOut
  /\ UNCHANGED <<redisClient, producer, connectedOnce, connections, up, probes,
                 pipeline>>

\* await createUsersTable(client), then client.release(); when the CREATE
\* TABLE throws, connectDatabase rethrows with the client checked out
CreateUsersTable ==
  /\ boot = "createUsersTable"
  /\ IF up["postgres"]
     THEN boot' = "initKafka" /\ checkedOut' = checkedOut - 1
     ELSE boot' = "exited" /\ UNCHANGED checkedOut
  /\ UNCHANGED <<redisClient, pool, producer, connectedOnce, connections, up, probes,
                 pipeline>>

\* initKafka passing on before the producer's connection is there
InitKafkaUnawaited ==
  /\ boot = "initKafka"
  /\ producer' = "producer"
  /\ boot' = "listening"
  /\ UNCHANGED <<redisClient, pool, connectedOnce, connections, checkedOut, up, probes,
                 pipeline>>

\* initKafka up to its first await: producer = kafka.producer()
InitKafka ==
  /\ boot = "initKafka"
  /\ producer' = "producer"
  /\ boot' = "producerConnect"
  /\ UNCHANGED <<redisClient, pool, connectedOnce, connections, checkedOut, up, probes,
                 pipeline>>

\* await producer.connect()
ProducerConnect ==
  /\ boot = "producerConnect"
  /\ IF up["kafka"]
     THEN /\ boot' = "consumerConnect" /\ connectedOnce' = TRUE
          /\ connections' = connections \cup {"producer"}
     ELSE boot' = "exited" /\ UNCHANGED <<connectedOnce, connections>>
  /\ UNCHANGED <<redisClient, pool, producer, checkedOut, up, probes, pipeline>>

\* await consumer.connect(), consumer.subscribe(..), startConsumer(); then
\* startServer calls app.listen
ConsumerConnect ==
  /\ boot = "consumerConnect"
  /\ boot' = IF up["kafka"] THEN "listening" ELSE "exited"
  /\ connections' = IF up["kafka"] THEN connections \cup {"consumer"} ELSE connections
  /\ UNCHANGED <<redisClient, pool, producer, connectedOnce, checkedOut, up, probes,
                 pipeline>>

\* process.on('SIGTERM' / 'SIGINT'): console.log(..); process.exit(0).  The
\* handlers are registered before startServer is called.
Signal ==
  /\ boot \notin {"exited", "terminated"}
  /\ boot' = "terminated"
  /\ UNCHANGED <<redisClient, pool, producer, connectedOnce, connections, checkedOut,
                 up, probes, pipeline>>

\* ------------------------------------------------------------ healthRoutes
\* getRedisClient() and redisClient.ping() both return
RedisAnswers == redisClient # "null" /\ up["redis"]

\* getPool() and pool.query('SELECT 1') both return
PostgresAnswers == pool # "null" /\ up["postgres"]

\* getProducer() returns: it throws when producer is not set
ProducerSet == producer # "null"

Checked(ok) == IF ok THEN "healthy" ELSE "unhealthy"

\* a status code that is 200 as soon as one service is healthy
HealthStatusCodeAny(services) ==
  IF \E s \in Services : services[s] = "healthy" THEN 200 ELSE 503

\* const allHealthy = Object.values(health.services).every(..)
\* const statusCode = allHealthy ? 200 : 503
HealthStatusCode(services) ==
  IF \A s \in Services : services[s] = "healthy" THEN 200 ELSE 503

\* GET /api/health: const health = {.., services: {redis: 'unknown', ..}}
\* (uptime and timestamp of the body are left out)
HealthBegin ==
  /\ boot = "listening"
  /\ health.pc \in {"idle", "done"}
  /\ health' = [pc |-> "redis", services |-> [s \in Services |-> "unknown"],
                failed |-> {}]
  /\ UNCHANGED <<process, ready, live, pipeline>>

\* a Redis check whose failure ends the handler
HealthCheckRedisAborting ==
  /\ health.pc = "redis"
  /\ health' = IF RedisAnswers
               THEN [health EXCEPT !.pc = "postgres", !.services["redis"] = "healthy"]
               ELSE [pc |-> "done", status |-> 503,
                     body |-> [message |-> "Error checking health",
                               services |-> [health.services EXCEPT
                                               !["redis"] = "unhealthy"]],
                     failed |-> {"redis"}]
  /\ UNCHANGED <<process, ready, live, pipeline>>

\* try { getRedisClient(); await redisClient.ping(); 'healthy' }
\* catch { 'unhealthy' }
HealthCheckRedis ==
  /\ health.pc = "redis"
  /\ health' = [health EXCEPT
                  !.pc = "postgres",
                  !.services["redis"] = Checked(RedisAnswers),
                  !.failed = IF RedisAnswers THEN @ ELSE @ \cup {"redis"}]
  /\ UNCHANGED <<process, ready, live, pipeline>>

\* try { getPool(); await pool.query('SELECT 1'); 'healthy' }
\* catch { 'unhealthy' }
HealthCheckPostgres ==
  /\ health.pc = "postgres"
  /\ health' = [health EXCEPT
                  !.pc = "kafka",
                  !.services["postgres"] = Checked(PostgresAnswers),
                  !.failed = IF PostgresAnswers THEN @ ELSE @ \cup {"postgres"}]
  /\ UNCHANGED <<process, ready, live, pipeline>>

\* try { const producer = getProducer(); if (producer) 'healthy' }
\* catch { 'unhealthy' }; then res.status(statusCode).json(health)
HealthCheckKafka ==
  /\ health.pc = "kafka"
  /\ LET services == [health.services EXCEPT !["kafka"] = Checked(ProducerSet)]
     IN health' = [pc |-> "done", status |-> HealthStatusCode(services),
                   body |-> [message |-> "OK", services |-> services],
                   failed |-> IF ProducerSet THEN health.failed
                              ELSE health.failed \cup {"kafka"}]
  /\ UNCHANGED <<process, ready, live, pipeline>>

\* GET /api/health/ready: getRedisClient(), getPool(), getProducer(); one of
\* them throwing is caught: 503 'not ready'
ReadyBegin ==
  /\ boot = "listening"
  /\ ready.pc \in {"idle", "done"}
  /\ ready' = IF redisClient # "null" /\ pool # "null" /\ ProducerSet
              THEN [pc |-> "ping", answered |-> {}]
              ELSE [pc |-> "done", status |-> 503, body |-> [status |-> "not ready"],
                    answered |-> {}, connected |-> connectedOnce]
  /\ UNCHANGED <<process, health, live, pipeline>>

\* await redisClient.ping()
ReadyPing ==
  /\ ready.pc = "ping"
  /\ ready' = IF up["redis"]
              THEN [pc |-> "query", answered |-> {"redis"}]
              ELSE [pc |-> "done", status |-> 503, body |-> [status |-> "not ready"],
                    answered |-> ready.answered, connected |-> connectedOnce]
  /\ UNCHANGED <<process, health, live, pipeline>>

\* await pool.query('SELECT 1'); if (producer) 200 'ready' else 503
ReadyQuery ==
  /\ ready.pc = "query"
  /\ ready' = IF up["postgres"]
              THEN [pc |-> "done", status |-> 200, body |-> [status |-> "ready"],
                    answered |-> ready.answered \cup {"postgres"},
                    connected |-> connectedOnce]
              ELSE [pc |-> "done", status |-> 503, body |-> [status |-> "not ready"],
                    answered |-> ready.answered, connected |-> connectedOnce]
  /\ UNCHANGED <<process, health, live, pipeline>>

\* a liveness answer that depends on the cache store
LiveRequestPinging ==
  /\ boot = "listening"
  /\ live' = [pc |-> "done", status |-> IF RedisAnswers THEN 200 ELSE 503,
              body |-> [status |-> IF RedisAnswers THEN "alive" ELSE "dead"],
              upAt |-> up]
  /\ UNCHANGED <<process, health, ready, pipeline>>

\* GET /api/health/live: res.status(200).json({ status: 'alive' })
LiveRequest ==
  /\ boot = "listening"
  /\ live' = [pc |-> "done", status |-> 200, body |-> [status |-> "alive"],
              upAt |-> up]
  /\ UNCHANGED <<process, health, ready, pipeline>>

\* ---------------------------------------------------------- specifications
\* the calls of submitUserData numbered in R, with payloads of U
SubmissionOf(R, U) ==
  \/ \E r \in R, u \in U : SubmitValidate(r, u)
  \/ \E r \in Reqs, ok \in BOOLEAN : SubmitStage(r, ok)
  \/ \E r \in Reqs, ok \in BOOLEAN, p \in Partitions : SubmitPublish(r, ok, p)

Submission(R) == SubmissionOf(R, Payloads)

Consumption ==
  \/ \E p \in Partitions : ConsumerFetch(p)
  \/ \E p \in Partitions, ok \in BOOLEAN : ConsumerQuery(p, ok)
  \/ \E p \in Partitions, ok \in BOOLEAN : ConsumerSetEx(p, ok)
  \/ \E p \in Partitions, ok \in BOOLEAN : ConsumerDel(p, ok)
  \/ \E p \in Partitions : ConsumerCommit(p)

ReadingBy(I) ==
  \/ \E i \in I, e \in Emails, ok \in BOOLEAN : ReadGet(i, e, ok)
  \/ \E i \in Readers, ok \in BOOLEAN : ReadQuery(i, ok)
  \/ \E i \in Readers, ok \in BOOLEAN : ReadSetEx(i, ok)

Reading == ReadingBy(Readers)

\* the pipeline: the submissions and the consumers of the partitions
Next == Submission(1..MaxSubmissions) \/ Consumption \/ Tick

Spec == Init /\ [][Next]_vars

\* the pipeline with several submissions
NextPair == Submission(Reqs) \/ Consumption \/ Tick

SpecPair == Init /\ [][NextPair]_vars

\* the pipeline with consumer crashes and the redelivery they cause
NextCrash ==
  \/ Submission(1..CrashSubmissions)
  \/ Consumption
  \/ \E p \in Partitions : ConsumerCrash(p)

SpecCrash == Init /\ [][NextCrash]_vars

\* one registration, its message delivered again after a crash, with the
\* clock running
NextReplay ==
  \/ Submission({1})
  \/ Consumption
  \/ \E p \in Partitions : ConsumerCrash(p)
  \/ Tick

SpecReplay == Init /\ [][NextReplay]_vars

\* one registration and the read path
NextRead == Submission({1}) \/ Consumption \/ Reading \/ Tick

SpecRead == Init /\ [][NextRead]_vars

\* one registration and one read, with the clock running and one crash more
\* than the redelivery needs: a crash before the commit delivers the message
\* again, and a further crash can then interrupt the second delivery
NextHeal ==
  \/ Submission({1})
  \/ Consumption
  \/ \E p \in Partitions : crashes <= MaxCrashes /\ ProcessExit(p)
  \/ ReadingBy({1})
  \/ Tick

SpecHeal == Init /\ [][NextHeal]_vars

\* one registration next to the messages of another producer, with consumer
\* crashes; the consumer of a partition keeps taking steps
NextPoison ==
  \/ Submission({1})
  \/ \E p \in Partitions, v \in ForeignValues : ForeignPublish(p, v)
  \/ Consumption
  \/ \E p \in Partitions : ConsumerCrash(p)

SpecPoison ==
  /\ Init /\ [][NextPoison]_vars
  /\ \A p \in Partitions : WF_vars(ConsumerFetch(p))
  /\ \A p \in Partitions : WF_vars(\E ok \in BOOLEAN : ConsumerQuery(p, ok))
  /\ \A p \in Partitions : WF_vars(\E ok \in BOOLEAN : ConsumerSetEx(p, ok))
  /\ \A p \in Partitions : WF_vars(\E ok \in BOOLEAN : ConsumerDel(p, ok))
  /\ \A p \in Partitions : WF_vars(ConsumerCommit(p))

\* every operation of the service next to the consumer: one registration, one
\* reader, the listing with its default page and the three health endpoints
NextFrame ==
  \/ Submission({1})
  \/ Consumption
  \/ ReadingBy({1})
  \/ \E ok \in BOOLEAN : ListUsers(<<>>, <<>>, ok)
  \/ HealthBegin
  \/ HealthCheckRedis
  \/ HealthCheckPostgres
  \/ HealthCheckKafka
  \/ ReadyBegin
  \/ ReadyPing
  \/ ReadyQuery
  \/ LiveRequest

SpecFrame == Init /\ [][NextFrame]_vars

\* several submissions for one email and the consumer, the clock standing
\* still
NextOrder == SubmissionOf(Reqs, {Ann, AnnCorrected}) \/ Consumption

SpecOrder == Init /\ [][NextOrder]_vars

\* one registration in a process that is told to stop, at its start or while
\* it serves
NextShutdown ==
  \/ ConnectRedis
  \/ ConnectDatabase
  \/ CreateUsersTable
  \/ InitKafka
  \/ ProducerConnect
  \/ ConsumerConnect
  \/ boot = "listening" /\ Submission({1})
  \/ boot = "listening" /\ Consumption
  \/ Signal

SpecShutdown == InitBoot /\ [][NextShutdown]_vars

\* a registration and its correction, with the clock running
NextUpdate == SubmissionOf({1, 2}, {Ann, AnnCorrected}) \/ Consumption \/ Tick

SpecUpdate == Init /\ [][NextUpdate]_vars

\* the listing of the users on the tables of ListTables
InitList ==
  /\ NoRequest /\ Serving /\ up = [s \in Services |-> TRUE]
  /\ users \in ListTables
  /\ held = users
  /\ nextId = 1 + Cardinality(users)

NextList ==
  \E lp \in LimitParams, op \in OffsetParams, ok \in BOOLEAN : ListUsers(lp, op, ok)

SpecList == InitList /\ [][NextList]_vars

\* the validator applied to the probing payloads
NextValidate == \E r \in Reqs, u \in ValidatorInputs : SubmitValidate(r, u)

SpecValidate == Init /\ [][NextValidate]_vars

\* the start of the process and the three health endpoints, with the
\* dependencies going down and coming back
NextProbe ==
  \/ \E s \in Services : DependencyChange(s)
  \/ ConnectRedis
  \/ ConnectDatabase
  \/ CreateUsersTable
  \/ InitKafka
  \/ ProducerConnect
  \/ ConsumerConnect
  \/ HealthBegin
  \/ HealthCheckRedis
  \/ HealthCheckPostgres
  \/ HealthCheckKafka
  \/ ReadyBegin
  \/ ReadyPing
  \/ ReadyQuery
  \/ LiveRequest

SpecProbe == InitBoot /\ [][NextProbe]_vars

\* ================================================================== claims
\* no submission is being handled and every message of the log has been
\* consumed and its offset committed
Quiescent ==
  /\ InFlight = {}
  /\ \A p \in Partitions : cons[p] = Polling /\ committed[p] = Len(log[p])

\* C1: in every reachable state the users table holds at most one row per
\* email, whatever was submitted, delivered (also twice) and upserted.
OneRowPerEmail == \A r1, r2 \in users : r1.email = r2.email => r1 = r2

\* C1 witness: a message was upserted, the consumer crashed after the
\* database write, the message was delivered again and upserted again.
OneRowPerEmailWitness ==
  \E r \in UpsertOk : crashedAt[r] \cap {"setEx", "del"} # {} /\ Cardinality(users) = 1

\* C2: an offset is committed only for a message for which
\* saveUserToDatabase has returned; a message whose upsert threw is not
\* acknowledged.
AckOnlyAfterUpsertSuccess ==
  \A p \in Partitions : \A i \in 1..committed[p] : log[p][i].req \in UpsertOk

\* C3: every accepted submission ends up as a row for its email: once
\* nothing is left to consume, no accepted submission is without a row.
AcceptedIsPersistedAtRest ==
  Quiescent => \A r \in Accepted : HasRow(users, req[r].input.email)

\* C4: a submission whose payload fails validation fails in that very step
\* with a validation error and changes neither the cache store nor the log
\* nor the users table; it is never staged and never published.
ValidationFailureHasNoEffect ==
  /\ [][\A r \in Reqs :
          (req[r].pc = "idle" /\ req'[r].pc # "idle" /\ ~SchemaValid(req'[r].input))
          => /\ req'[r].pc = "done"
             /\ req'[r].result = "ValidationError"
             /\ UNCHANGED <<users, nextId, redis, log>>]_vars
  /\ [](\A r \in Reqs :
          (req[r].pc # "idle" /\ ~SchemaValid(req[r].input))
          => r \notin staged /\ MessagesOf(r) = {})

\* C4 witness: the payload with a firstName of length 1 was rejected.
ValidationFailureWitness ==
  \E r \in Reqs : /\ req[r].pc = "done"
                  /\ req[r].input = ShortFirstName
                  /\ req[r].result = "ValidationError"

\* C5: a submission whose staging write failed has ended with the staging
\* error and has no message in the log.
StagingFailureNotPublished ==
  \A r \in stageFailed :
    req[r].pc = "done" /\ req[r].result = "StagingError" /\ MessagesOf(r) = {}

\* C5 witness: a staging write failed.
StagingFailureWitness == \E r \in stageFailed : req[r].pc = "done"

\* C6: an accepted submission has completed its staging write and has its
\* message in the log (the broker acknowledged it); a submission whose
\* publish failed ended with the publish error.
AcceptedAfterStagingAndAck ==
  /\ \A r \in Accepted : r \in staged /\ MessagesOf(r) # {}
  /\ \A r \in publishFailed : req[r].pc = "done" /\ req[r].result = "PublishError"

\* C6 witness: a submission is accepted while no consumer has fetched its
\* message and no row exists: acceptance precedes persistence.
AcceptedBeforePersistedWitness ==
  \E r \in Accepted : /\ ~HasRow(users, req[r].input.email)
                      /\ \A p \in Partitions : position[p] = 0 /\ cons[p] = Polling

\* C7: an upsert of a record whose fields the row of its email already
\* carries leaves the table with the same rows, the row of the email
\* changed in updated_at only, and updated_at does not go backwards.
UpsertIdempotent ==
  [][\A p \in Partitions :
       (/\ cons[p].pc = "query"
        /\ cons'[p].pc = "setEx"
        /\ HasRow(users, cons[p].userData.email)
        /\ RowFields(RowOf(users, cons[p].userData.email)) = cons[p].userData)
       => LET old == RowOf(users, cons[p].userData.email)
              new == RowOf(users', cons[p].userData.email)
          IN /\ users' = (users \ {old}) \cup {[old EXCEPT !.updated_at = new.updated_at]}
             /\ Cardinality(users') = Cardinality(users)
             /\ new.updated_at >= old.updated_at]_vars

\* C7 witness: the record was upserted a second time, later than the first.
UpsertIdempotentWitness ==
  \E r \in users : /\ r.updated_at > r.created_at
                   /\ \E q \in UpsertOk : req[q].input = RowFields(r)

\* the columns of a completion entry or of a row as JSON, savedAt left out
RowPart(x) == [k \in DOMAIN x \ {"savedAt"} |-> x[k]]

\* request r's message has been handed to eachMessage before: a crash
\* interrupted it, or saveUserToDatabase threw or returned for it
Redelivered(r) == crashedAt[r] # {} \/ r \in upsertFailed \/ okCount[r] > 0

\* C8: when a message whose processing had crashed or failed is processed
\* again to completion, the state is that of one successful processing: one
\* row for the email with the fields of the message, a completion entry
\* with that row, no staging entry.
RedeliverySafe ==
  [][\A p \in Partitions :
       (/\ cons[p].pc = "del"
        /\ okCount'[cons[p].msg.req] = okCount[cons[p].msg.req] + 1
        /\ Redelivered(cons[p].msg.req))
       => LET e == cons[p].userData.email
          IN /\ Cardinality({x \in users' : x.email = e}) = 1
             /\ RowFields(RowOf(users', e)) = cons[p].userData
             /\ Exists(redis', CompletedKey(e), now')
             /\ RowPart(JSONParse(redis'[CompletedKey(e)].value))
                  = StringifyRow(RowOf(users', e)).json
             /\ PendingKey(e) \notin DOMAIN redis']_vars

\* C8 witness: a crash between the database write and the completion-cache
\* write, and the message processed to completion afterwards.
RedeliverySafeWitness ==
  \E r \in UpsertOk : "setEx" \in crashedAt[r] /\ Quiescent

\* C9: of two submissions for one email accepted one after the other, once
\* both messages are consumed the row carries the fields of the later one.
LaterSubmissionWins ==
  \A r1, r2 \in Accepted :
    (/\ r1 \in startedAfter[r2]
     /\ req[r1].input.email = req[r2].input.email
     /\ Quiescent
     /\ {r1, r2} \subseteq UpsertOk
     /\ upsertFailed = {})
    => RowFields(RowOf(users, req[r2].input.email)) = req[r2].input

\* what a finished getUserByEmail call returned, as JSON, savedAt left out
ReturnedRow(call) ==
  IF call.kind = "hit" THEN RowPart(call.user) ELSE StringifyRow(call.user).json

\* C10: an accepted submission whose message is not yet processed has its
\* record under the pending key of its email and its message in the log;
\* once its message is processed, the row of the email carries its fields
\* with id 1, the pending key is gone, a completion entry with the row is
\* there, and a getUserByEmail call begun from then on returns that row.
EndToEnd ==
  \A r \in Accepted :
    LET e == req[r].input.email
    IN /\ okCount[r] = 0 =>
            /\ MessagesOf(r) # {}
            /\ PendingKey(e) \in DOMAIN redis
            /\ JSONParse(redis[PendingKey(e)].value) = req[r].input
            /\ now < PendingTTL => Exists(redis, PendingKey(e), now)
       /\ okCount[r] > 0 =>
            /\ HasRow(users, e)
            /\ RowFields(RowOf(users, e)) = req[r].input
            /\ RowOf(users, e).id = 1
            /\ PendingKey(e) \notin DOMAIN redis
            /\ CompletedKey(e) \in DOMAIN redis
            /\ RowPart(JSONParse(redis[CompletedKey(e)].value))
                 = StringifyRow(RowOf(users, e)).json
            /\ \A i \in Readers :
                 (/\ rd[i].pc = "done"
                  /\ rd[i].email = e
                  /\ r \in rd[i].after
                  /\ rd[i].kind # "error")
                 => /\ rd[i].kind \in {"hit", "miss"}
                    /\ ReturnedRow(rd[i]) = StringifyRow(RowOf(users, e)).json

\* C10 witness: the message was processed and a getUserByEmail call begun
\* afterwards found the completion entry.
EndToEndWitness ==
  \E r \in Accepted, i \in Readers :
    /\ rd[i].pc = "done"
    /\ rd[i].kind = "hit"
    /\ rd[i].email = req[r].input.email
    /\ r \in rd[i].after

\* C11: cache-aside on a miss.  A call of getUserByEmail that finds no
\* completion entry for an email whose row is in the users table, and whose
\* cache and database calls do not fail, goes on to cache that row: it
\* returns exactly the row the table holds, and when it returns a live
\* completion entry holding that row exists.
CacheAsideOnMiss ==
  [][\A i \in Readers :
       LET email == rd[i].email
           key   == CompletedKey(email)
       IN /\ (/\ rd[i].pc = "query" /\ rd'[i] # rd[i] /\ HasRow(users, email)
              /\ rd'[i].pc = "done" => rd'[i].kind # "error") =>
               /\ rd'[i].pc = "setEx"
               /\ rd'[i].row = RowOf(users, email)
          /\ (rd[i].pc = "setEx" /\ rd'[i].pc = "done" /\ rd'[i].kind # "error") =>
               /\ rd'[i].kind = "miss"
               /\ HasRow(users', email)
               /\ rd'[i].user = RowOf(users', email)
               /\ Exists(redis', key, now')
               /\ JSONParse(redis'[key].value) = JSONParse(StringifyRow(RowOf(users', email)))
    ]_vars

\* a call has returned the row on a miss although the consumer never wrote
\* the completion entry, and the entry the call wrote is in place
CacheAsideOnMissWitness ==
  \E i \in Readers :
    /\ rd[i].pc = "done" /\ rd[i].kind = "miss"
    /\ 1 \in upsertFailed
    /\ HasRow(users, rd[i].email) /\ rd[i].user = RowOf(users, rd[i].email)
    /\ Exists(redis, CompletedKey(rd[i].email), now)
    /\ redis[CompletedKey(rd[i].email)].value = StringifyRow(rd[i].user)

\* the rows the users table has held for an email, as JSON carries them
HeldJSON(email) == {JSONParse(StringifyRow(h)) : h \in {r \in held : r.email = email}}

\* C12: the completion cache holds only rows the system of record held.  The
\* row data of every completion entry, and the row data every cache hit of
\* getUserByEmail returns, is a row the users table holds or held earlier for
\* that email.
CompletionEntryWasHeld ==
  /\ \A e \in Emails :
       CompletedKey(e) \in DOMAIN redis =>
         RowPart(JSONParse(redis[CompletedKey(e)].value)) \in HeldJSON(e)
  /\ \A i \in Readers :
       (rd[i].pc = "done" /\ rd[i].kind = "hit") =>
         RowPart(rd[i].user) \in HeldJSON(rd[i].email)

\* a hit has returned a row the table held earlier and holds no longer
CompletionEntryWasHeldWitness ==
  \E i \in Readers :
    /\ rd[i].pc = "done" /\ rd[i].kind = "hit"
    /\ HasRow(users, rd[i].email)
    /\ RowPart(rd[i].user) # JSONParse(StringifyRow(RowOf(users, rd[i].email)))
    /\ RowPart(rd[i].user) \in HeldJSON(rd[i].email)

\* a crash has interrupted the processing of a message for the email between
\* the upsert and the write of the completion entry
CrashedBeforeCacheWrite(e) ==
  \E r \in Reqs : "setEx" \in crashedAt[r] /\ req[r].input.email = e

\* the state such a crash leaves behind: the row is in the users table and
\* no consumer has taken a message up again
LeftByCrash(e) ==
  /\ HasRow(users, e)
  /\ CrashedBeforeCacheWrite(e)
  /\ \A p \in Partitions : cons[p].pc = "polling" /\ position[p] = committed[p]

\* C13 as stated: after a crash between the database commit and the write of
\* the completion entry, the next getUserByEmail that returns from the cache
\* returns the row the users table holds, also when an older completion
\* entry is still in place.
SelfHealingOnNextRead ==
  [][\A i \in Readers :
       (/\ rd[i].pc = "idle" /\ rd'[i].pc = "done" /\ rd'[i].kind = "hit"
        /\ LeftByCrash(rd'[i].email)) =>
         RowPart(rd'[i].user) = JSONParse(StringifyRow(RowOf(users, rd'[i].email)))
    ]_vars

\* C13, amended: after a crash between the database commit and the write of
\* the completion entry, the next getUserByEmail whose calls do not fail
\* behaves by what the crash left.  With no live completion entry it queries
\* the users table, returns the row the table holds at that query and caches
\* it.  With an older completion entry in place it returns the row of that
\* entry, a row the table held earlier and possibly not the current one, and
\* leaves the cache as it is.
SelfHealingWhenEntryMissing ==
  [][\A i \in Readers :
       LET e   == rd'[i].email
           key == CompletedKey(e)
       IN /\ (/\ rd[i].pc = "idle" /\ rd'[i].pc # "idle"
              /\ rd'[i].pc = "done" => rd'[i].kind # "error"
              /\ LeftByCrash(e)) =>
               IF Exists(redis, key, now)
               THEN /\ rd'[i].pc = "done" /\ rd'[i].kind = "hit"
                    /\ RowPart(rd'[i].user) = RowPart(JSONParse(redis[key].value))
                    /\ RowPart(rd'[i].user) \in HeldJSON(e)
                    /\ redis' = redis
               ELSE rd'[i].pc = "query"
          /\ (/\ rd[i].pc = "query" /\ rd'[i] # rd[i]
              /\ rd'[i].pc = "done" => rd'[i].kind # "error"
              /\ HasRow(users, e) /\ CrashedBeforeCacheWrite(e)) =>
               /\ rd'[i].pc = "setEx"
               /\ rd'[i].row = RowOf(users, e)
          /\ (/\ rd[i].pc = "setEx" /\ rd'[i].pc = "done" /\ rd'[i].kind # "error"
              /\ CrashedBeforeCacheWrite(e)) =>
               /\ rd'[i].user = rd[i].row
               /\ Exists(redis', key, now')
               /\ redis'[key].value = StringifyRow(rd[i].row)
    ]_vars

\* the crash has left an older completion entry in place and the next call
\* has returned its row, which is not the row the users table holds
SelfHealingWhenEntryMissingWitness ==
  \E i \in Readers :
    /\ rd[i].pc = "done" /\ rd[i].kind = "hit"
    /\ LeftByCrash(rd[i].email)
    /\ RowPart(rd[i].user) # JSONParse(StringifyRow(RowOf(users, rd[i].email)))
    /\ RowPart(rd[i].user) \in HeldJSON(rd[i].email)

\* C14: no negative caching.  A call of getUserByEmail that finds neither a
\* live completion entry nor a row for the email, and whose cache and
\* database calls do not fail, returns null, which the route answers with
\* 404, and none of its steps changes the completion cache, the staging
\* cache or the users table.
NoNegativeCaching ==
  [][\A i \in Readers :
       LET e == rd'[i].email
       IN /\ (/\ rd[i].pc = "idle" /\ rd'[i].pc # "idle"
              /\ rd'[i].pc = "done" => rd'[i].kind # "error"
              /\ ~Exists(redis, CompletedKey(e), now)) =>
               /\ rd'[i].pc = "query"
               /\ UNCHANGED <<users, nextId, redis>>
          /\ (/\ rd[i].pc = "query" /\ rd'[i] # rd[i]
              /\ rd'[i].pc = "done" => rd'[i].kind # "error"
              /\ ~HasRow(users, e)) =>
               /\ rd'[i].pc = "done" /\ rd'[i].kind = "null"
               /\ "user" \notin DOMAIN rd'[i]
               /\ GetUserRoute(rd'[i]).status = 404
               /\ UNCHANGED <<users, nextId, redis>>
    ]_vars

\* a call has returned null for an email that has no row and no completion
\* entry, while the staging entry of a registration in flight is in place
NoNegativeCachingWitness ==
  \E i \in Readers :
    /\ rd[i].pc = "done" /\ rd[i].kind = "null"
    /\ ~HasRow(users, rd[i].email)
    /\ CompletedKey(rd[i].email) \notin DOMAIN redis
    /\ PendingKey(rd[i].email) \in DOMAIN redis

\* C15: the aggregate health status.  Every answer of GET /api/health
\* carries a status for each of the three dependencies, the status of a
\* dependency is healthy exactly when its check did not fail, and the answer
\* is 200 exactly when all three are healthy and 503 otherwise.
AggregateHealth ==
  health.pc = "done" =>
    /\ DOMAIN health.body.services = Services
    /\ \A s \in Services :
         /\ health.body.services[s] \in {"healthy", "unhealthy"}
         /\ health.body.services[s] = "healthy" <=> s \notin health.failed
    /\ health.status = 200 <=> \A s \in Services : health.body.services[s] = "healthy"
    /\ health.status # 200 => health.status = 503

\* an answer 503 that reports two dependencies unhealthy and the third healthy
AggregateHealthWitness ==
  /\ health.pc = "done"
  /\ health.status = 503
  /\ health.body.services =
       [s \in Services |-> IF s = "kafka" THEN "healthy" ELSE "unhealthy"]

\* C16: the health checks are isolated.  When the check of exactly one
\* dependency fails, the handler still runs the two other checks and answers:
\* that dependency is reported unhealthy, the two others healthy, and the
\* answer is 503.
HealthChecksIsolated ==
  health.pc = "done" =>
    /\ \A s \in Services : health.body.services[s] # "unknown"
    /\ \A s \in Services :
         health.failed = {s} =>
           /\ health.body.services[s] = "unhealthy"
           /\ \A t \in Services \ {s} : health.body.services[t] = "healthy"
           /\ health.status = 503

\* the check of the cache store alone has failed and the answer reports the
\* two other dependencies healthy
HealthChecksIsolatedWitness ==
  /\ health.pc = "done"
  /\ health.failed = {"redis"}
  /\ health.body.services["postgres"] = "healthy"
  /\ health.body.services["kafka"] = "healthy"
  /\ health.status = 503

\* C17: readiness.  GET /api/health/ready answers 200 'ready' only if the
\* producer's connection has been established at least once and both the
\* cache store and the users database answered the probe of this check; every
\* other answer is 503 'not ready'.
ReadyOnlyWhenConnected ==
  ready.pc = "done" =>
    /\ ready.status = 200 =>
         /\ ready.connected
         /\ ready.answered = {"redis", "postgres"}
         /\ ready.body.status = "ready"
    /\ ready.status # 200 =>
         /\ ready.status = 503
         /\ ready.body.status = "not ready"
    /\ ready.answered # {"redis", "postgres"} => ready.status = 503

\* the check has answered ready while the broker is down: the connection was
\* established once and both stores answered
ReadyOnlyWhenConnectedWitness ==
  /\ ready.pc = "done"
  /\ ready.status = 200
  /\ ready.connected
  /\ ~up["kafka"]

ErrorClassesDistinct ==
  \A r \in Reqs :
    req[r].pc = "done" =>
      LET res == PostUserRoute(req[r])
      IN /\ req[r].result = "ValidationError" =>
              /\ res.status \in 400..499
              /\ res.body.error = <<"Validation error", FirstBadKey(req[r].input)>>
         /\ req[r].result \in {"StagingError", "PublishError"} =>
              res.status \in 500..599

\* the six rules the claim lists, written out for a payload
RulesHold(u) ==
  /\ {"firstName", "lastName", "email", "gender", "sex", "occupation"} \subseteq DOMAIN u
  /\ Len(u.firstName) \in 2..100
  /\ Len(u.lastName) \in 2..100
  /\ EmailSyntaxOK(u.email)
  /\ u.gender \in {"male", "female", "non-binary", "prefer-not-to-say"}
  /\ u.sex \in {"male", "female", "intersex"}
  /\ Len(u.occupation) \in 2..255

\* field k of the payload is missing or breaks its rule, and it is the only
\* one of the six that does: with a valid value for k the six rules hold
OnlyFault(u, k) ==
  /\ ~RulesHold(u)
  /\ RulesHold([j \in DOMAIN u \cup {k} |-> IF j = k THEN Ann[k] ELSE u[j]])

ValidatorAccepted(r) == req[r].pc = "staging"
ValidatorRejected(r) == req[r].pc = "done" /\ req[r].result = "ValidationError"

\* C20 as stated: the validator accepts a payload, returning all six fields,
\* exactly when the six rules hold of it, and a payload with exactly one
\* field missing or invalid fails with an error naming that field.
ValidatorAcceptsByRules ==
  \A r \in Reqs :
    req[r].pc # "idle" =>
      LET u == req[r].input
      IN /\ ValidatorAccepted(r) <=> RulesHold(u)
         /\ ValidatorAccepted(r) => req[r].data = u /\ DOMAIN Ann \subseteq DOMAIN req[r].data
         /\ \A k \in DOMAIN Ann :
              OnlyFault(u, k) => ValidatorRejected(r) /\ req[r].error[2] = k

\* C20, amended: the validator accepts a payload, returning all six fields,
\* exactly when the payload has no field besides the six and the six rules
\* hold of it; a payload with exactly one of the six fields missing or
\* invalid fails with an error naming that field, and a payload whose six
\* fields are in order but which carries a further field fails with an error
\* naming the further field.
ValidatorAcceptsKnownFields ==
  \A r \in Reqs :
    req[r].pc # "idle" =>
      LET u == req[r].input
      IN /\ ValidatorAccepted(r) <=> (RulesHold(u) /\ DOMAIN u = DOMAIN Ann)
         /\ ~ValidatorAccepted(r) => ValidatorRejected(r)
         /\ ValidatorAccepted(r) =>
              /\ req[r].data = u
              /\ DOMAIN req[r].data =
                   {"firstName", "lastName", "email", "gender", "sex", "occupation"}
         /\ \A k \in DOMAIN Ann :
              OnlyFault(u, k) => ValidatorRejected(r) /\ req[r].error[2] = k
         /\ (RulesHold(u) /\ DOMAIN u # DOMAIN Ann) =>
              ValidatorRejected(r) /\ req[r].error[2] \in DOMAIN u \ DOMAIN Ann

\* a payload with a field the schema does not know has been rejected with an
\* error naming it, and a payload whose only fault is its sex has been
\* rejected with an error naming sex
ValidatorAcceptsKnownFieldsWitness ==
  /\ ValidatorRejected(1) /\ RulesHold(req[1].input)
  /\ req[1].error[2] = "nickname"
  /\ ValidatorRejected(2) /\ OnlyFault(req[2].input, "sex")
  /\ req[2].error[2] = "sex"

\* the limit and the offset a call of the listing gives: the number the
\* parameter spells, or the default when it spells none
GivenOr(param, default) ==
  IF ParseInt(param).nan THEN default ELSE ParseInt(param).n

\* C21: listing with pagination.  A listing called with limit L and offset
\* O, neither negative, on a table of N rows answers with exactly
\* min(L, max(0, N - O)) rows, which are rows O+1..O+L of the rows ordered
\* by creation time, most recent first; a limit or offset that is not given
\* counts as 100 or 0.
ListingPaginates ==
  listing.pc = "done" =>
    LET L == GivenOr(listing.limit, 100)
        O == GivenOr(listing.offset, 0)
        N == Cardinality(listing.table)
    IN (L >= 0 /\ O >= 0 /\ listing.status = 200) =>
         /\ Len(listing.body.data) = Min(L, Max(0, N - O))
         /\ \E o \in Orderings(listing.table) :
              listing.body.data = SubSeq(o, O + 1, Min(O + L, N))

\* ------------------------------------------------------------------ C22
\* message i of partition p is one that can never be processed
Poison(p, i) == i <= Len(log[p]) /\ log[p][i].req = 0

\* C22: a message that can never be processed is passed without a change to
\* the table or to the cache store, leaving the consumer polling; and (the log
\* of a behaviour being finite) from some point on every message of every
\* partition is committed for good: the message is delivered no more, and the
\* messages behind it were consumed.
PoisonMessagePolicy ==
  /\ [][\A p \in Partitions :
          (Poison(p, position[p] + 1) /\ position'[p] = position[p] + 1)
            => (users' = users /\ redis' = redis /\ cons'[p] = Polling)]_vars
  /\ <>[](\A p \in Partitions : committed[p] = Len(log[p]))

\* a cut-off message was committed and the registration behind it stored
PoisonMessagePolicyWitness ==
  \E p \in Partitions :
    /\ Len(log[p]) = 2
    /\ Poison(p, 1) /\ ~Parseable(log[p][1].value)
    /\ log[p][2].req = 1
    /\ committed[p] = 2
    /\ okCount[1] = 1
    /\ users # {}

\* ------------------------------------------------------------------ C23
\* the consumer of partition p is in saveUserToDatabase
InUpserter(p) == cons[p].pc \in {"query", "setEx", "del"}

\* C23: a failure of saveUserToDatabase leaves the consumer polling at the
\* next message; the consumer gets past a message that can be parsed only by
\* having handed it to saveUserToDatabase; and from some point on the consumer
\* of every partition is polling at the end of its log, so that every message
\* behind a failed one was handed over.
LoopSurvivesFailure ==
  /\ [][\A p \in Partitions :
          /\ (InUpserter(p) /\ upsertFailed' # upsertFailed /\ cons'[p] # cons[p])
               => (cons'[p] = Polling /\ position'[p] = position[p] + 1)
          /\ (position'[p] = position[p] + 1
                /\ Parseable(log[p][position[p] + 1].value))
               => (InUpserter(p) /\ cons[p].msg = log[p][position[p] + 1])]_vars
  /\ <>[](\A p \in Partitions : cons[p] = Polling /\ position[p] = Len(log[p]))

\* the first message of a partition made saveUserToDatabase throw and the
\* registration behind it is in saveUserToDatabase, its row stored
LoopSurvivesFailureWitness ==
  \E p \in Partitions :
    /\ Len(log[p]) = 2
    /\ log[p][1].req = 0 /\ Parseable(log[p][1].value) /\ 0 \in upsertFailed
    /\ position[p] = 1
    /\ cons[p].pc = "setEx" /\ cons[p].msg.req = 1
    /\ crashes = 0

\* ------------------------------------------------------------------ C24
\* C24: the rows of the users table change only in the step in which the
\* consumer of a partition gets the answer to the upsert of
\* saveUserToDatabase; submitUserData, getUserByEmail, getAllUsers and the
\* three health endpoints leave them as they are.
OnlyConsumerWritesRows ==
  [][users' # users =>
       \E p \in Partitions :
         /\ cons[p].pc = "query" /\ cons'[p].pc = "setEx"
         /\ req' = req /\ rd' = rd /\ listing' = listing
         /\ health' = health /\ ready' = ready /\ live' = live]_vars

\* a row is stored and every other operation of the service has run to its
\* end
OnlyConsumerWritesRowsWitness ==
  /\ users # {}
  /\ req[1].pc = "done" /\ req[1].result = "accepted"
  /\ rd[1].pc = "done"
  /\ listing.pc = "done" /\ listing.status = 200 /\ listing.table # {}
  /\ health.pc = "done" /\ ready.pc = "done" /\ live.pc = "done"

\* ------------------------------------------------------------------ C25
\* the processing of the message of request r has come to its end
Processed(r) == okCount[r] > 0 \/ r \in upsertFailed

\* the message of request r was not handed to saveUserToDatabase so far
NotHandedOver(r) ==
  /\ okCount[r] = 0 /\ r \notin upsertFailed
  /\ \A q \in Partitions : InUpserter(q) => cons[q].msg.req # r

\* C25: the consumer of a partition has at most the message at its position
\* in saveUserToDatabase; the processing of every message before it has come
\* to its end and no message behind it was handed over; and when one
\* partition got all the messages and the last one was stored, the row holds
\* the data of the last one.
OneMessageAtATime ==
  \A p \in Partitions :
    /\ InUpserter(p) =>
         position[p] < Len(log[p]) /\ cons[p].msg = log[p][position[p] + 1]
    /\ \A j \in 1..Len(log[p]) :
         /\ j <= position[p] => Processed(log[p][j].req)
         /\ j > position[p] + 1 => NotHandedOver(log[p][j].req)
         /\ (j = position[p] + 1 /\ ~InUpserter(p)) => NotHandedOver(log[p][j].req)
    /\ (/\ \A q \in Partitions \ {p} : log[q] = <<>>
        /\ position[p] = Len(log[p])
        /\ log[p] # <<>>
        /\ okCount[log[p][Len(log[p])].req] > 0)
         => \E row \in users :
              \A i \in DOMAIN SchemaKeys :
                RowFields(row)[SchemaKeys[i]]
                  = JSONParse(log[p][Len(log[p])].value)[SchemaKeys[i]]

\* the second message of a partition is in saveUserToDatabase after the
\* first one was stored, and it carries other data for the same email
OneMessageAtATimeWitness ==
  \E p \in Partitions :
    /\ Len(log[p]) = 2
    /\ position[p] = 1
    /\ okCount[log[p][1].req] = 1
    /\ cons[p].pc = "setEx"
    /\ log[p][1].value # log[p][2].value

\* ------------------------------------------------------------------ C26
\* the submissions for the email that were accepted
AcceptedFor(email) == {r \in Accepted : req[r].input.email = email}

\* C26: when no submission for an email is under way and every accepted
\* submission for it, of which there is at least one, was processed with
\* success, the cache store holds no staging entry for the email.
NoStagingEntryOnceProcessed ==
  \A email \in Emails :
    (/\ \A r \in InFlight : req[r].input.email # email
     /\ AcceptedFor(email) # {}
     /\ \A r \in AcceptedFor(email) : okCount[r] > 0)
      => ~Exists(redis, PendingKey(email), now)

\* ------------------------------------------------------------------ C27
\* C27: when the process has ended on SIGTERM or SIGINT, neither the producer
\* nor the consumer is connected, and a message that was in
\* saveUserToDatabase is not committed.
DisconnectedOnShutdown ==
  boot = "terminated" =>
    /\ connections = {}
    /\ \A p \in Partitions : InUpserter(p) => committed[p] <= position[p]

\* ------------------------------------------------------------------ C28
\* C28: every completion entry of the cache store is a row the users table
\* held for the email together with a savedAt timestamp.
CompletionEntryStamped ==
  \A e \in Emails :
    CompletedKey(e) \in DOMAIN redis =>
      LET entry == JSONParse(redis[CompletedKey(e)].value)
      IN /\ "savedAt" \in DOMAIN entry
         /\ RowPart(entry) \in HeldJSON(e)

\* ------------------------------------------------------------------ C29
\* every call of saveUserToDatabase that stored a row went on to write its
\* completion entry, and no consumer is in saveUserToDatabase
SavesFinished ==
  /\ \A p \in Partitions : cons[p] = Polling /\ position[p] = Len(log[p])
  /\ upsertFailed = {}
  /\ \A r \in Reqs : "setEx" \notin crashedAt[r]

\* C29: when a reader has repopulated the completion entry of an email after
\* a miss and the calls of saveUserToDatabase for the email have finished,
\* the entry, as long as it lives, holds the row the users table holds.
RepopulationKeepsCurrentRow ==
  \A i \in Readers :
    (/\ rd[i].pc = "done" /\ rd[i].kind = "miss"
     /\ SavesFinished
     /\ okCount[1] > 0
     /\ Exists(redis, CompletedKey(rd[i].email), now))
      => RowPart(JSONParse(redis[CompletedKey(rd[i].email)].value))
           = JSONParse(StringifyRow(RowOf(users, rd[i].email)))

\* ------------------------------------------------------------------ C30
\* the message of request r lies behind the position of its partition's
\* consumer
Unprocessed(r) == \E m \in MessagesOf(r) : m[2] > position[m[1]]

\* C30: as long as the message of an accepted submission is unprocessed, the
\* cache store holds a staging entry for the email of the submission.
StagingWitnessesUnprocessed ==
  \A r \in Accepted :
    Unprocessed(r) => Exists(redis, PendingKey(req[r].input.email), now)

\* ------------------------------------------------------------------ C31
\* the cache store gets, or loses, the key in the step
Appears(key) == key \notin DOMAIN redis /\ key \in DOMAIN redis'
Vanishes(key) == key \in DOMAIN redis /\ key \notin DOMAIN redis'

\* C31: saveUserToDatabase writes the table, then the completion entry, then
\* deletes the staging entry, and stops at the first failure.  The step that
\* writes the table leaves the cache store alone; a completion entry appears
\* only for an email that has its row, in a step that leaves the table and
\* the staging entry alone; a staging entry vanishes only when a row is
\* stored and the completion entry holds a row stored for the email, in a
\* step that changes nothing else; and a step in which saveUserToDatabase throws changes neither the
\* table nor the cache store and leaves the consumer polling.
SaveEffectsInOrder ==
  [][/\ users' # users => redis' = redis
     /\ \A e \in Emails :
          /\ Appears(CompletedKey(e)) =>
               /\ HasRow(users, e) /\ users' = users
               /\ redis' = SetEx(redis, CompletedKey(e), CompletedTTL,
                                 redis'[CompletedKey(e)].value, now)
          /\ Vanishes(PendingKey(e)) =>
               /\ HasRow(users, e) /\ users' = users
               /\ CompletedKey(e) \in DOMAIN redis
               /\ RowPart(JSONParse(redis[CompletedKey(e)].value)) \in HeldJSON(e)
               /\ redis' = Del(redis, PendingKey(e))
     /\ upsertFailed' # upsertFailed =>
          /\ users' = users /\ redis' = redis
          /\ \E p \in Partitions :
               cons[p].pc \in {"query", "setEx", "del"} /\ cons'[p] = Polling
    ]_vars

\* the write of the completion entry has failed: the row is stored, the
\* staging entry is still there and the message is consumed
SaveEffectsInOrderWitness ==
  /\ 1 \in upsertFailed
  /\ HasRow(users, AnnEmail)
  /\ CompletedKey(AnnEmail) \notin DOMAIN redis
  /\ PendingKey(AnnEmail) \in DOMAIN redis
  /\ \A p \in Partitions : cons[p] = Polling /\ position[p] = Len(log[p])

\* ------------------------------------------------------------------ C32
\* C32: a stored row keeps its email, its id and its created_at for good;
\* it changes only in an upsert of the consumer, which gives it the fields
\* of the message and the time of the upsert as updated_at; and updated_at
\* is never earlier than created_at nor than it was.
RowIdentityStable ==
  /\ [](\A r \in users : r.updated_at >= r.created_at)
  /\ [][\A r \in users :
          \E n \in users' :
            /\ n.email = r.email /\ n.id = r.id /\ n.created_at = r.created_at
            /\ n.updated_at >= r.updated_at
            /\ n # r =>
                 \E p \in Partitions :
                   /\ cons[p].pc = "query" /\ cons'[p].pc = "setEx"
                   /\ RowFields(n) = cons[p].userData
                   /\ n.updated_at = now]_vars

\* the registration was stored and its correction upserted later: the row
\* has the first id and creation time and the fields of the correction
RowIdentityStableWitness ==
  \E r \in users :
    /\ r.id = 1 /\ r.created_at = 0
    /\ r.updated_at > r.created_at
    /\ RowFields(r) = AnnCorrected
    /\ Ann \in {RowFields(h) : h \in held}
    /\ nextId = 3

\* ------------------------------------------------------------------ C33
\* the dependency the step of startServer at this place waits for
Awaited(place) ==
  CASE place = "connectRedis" -> {"redis"}
    [] place \in {"connectDatabase", "createUsersTable"} -> {"postgres"}
    [] place \in {"producerConnect", "consumerConnect"} -> {"kafka"}
    [] OTHER -> {}

\* the place startServer goes to when the step at this place succeeds
After(place) ==
  CASE place = "connectRedis" -> "connectDatabase"
    [] place = "connectDatabase" -> "createUsersTable"
    [] place = "createUsersTable" -> "initKafka"
    [] place = "initKafka" -> "producerConnect"
    [] place = "producerConnect" -> "consumerConnect"
    [] place = "consumerConnect" -> "listening"
    [] OTHER -> place

\* C33: startServer goes through the connection of the cache store, of the
\* database and of the relay in this order, each step passing only while
\* its dependency answers and ending the process otherwise; an ended process
\* stays ended; no request is answered before the server listens; and the
\* server listens only with the three clients set and the producer and the
\* consumer connected.
ListenAfterInitialisation ==
  /\ [](boot # "listening" => health = Idle /\ ready = Idle /\ live = Idle)
  /\ [](boot = "listening" =>
          /\ redisClient # "null" /\ pool # "null" /\ producer # "null"
          /\ connections = {"producer", "consumer"})
  /\ [][boot' # boot =>
          \/ boot' = After(boot) /\ \A s \in Awaited(boot) : up[s]
          \/ boot' = "exited" /\ \E s \in Awaited(boot) : ~up[s]]_vars

\* the consumer could not connect: the process has ended with the cache
\* store, the database and the producer connected and no request answered
ListenAfterInitialisationWitness ==
  /\ boot = "exited"
  /\ redisClient # "null" /\ pool # "null"
  /\ connections = {"producer"}
  /\ health = Idle /\ ready = Idle /\ live = Idle

\* ------------------------------------------------------------------ C34
\* C34: while connectDatabase is not under way no client of the pool is
\* checked out, and the clients checked out never exceed the pool's bound.
PoolClientsReleased ==
  /\ boot # "createUsersTable" => checkedOut = 0
  /\ checkedOut <= PoolMax

====
